---- MODULE Spec2Model ----
(***************************************************************************)
(* Urdle: a daily four-letter Urdu word game.                              *)
(*                                                                         *)
(* The model covers the game engine (key handling, submitGuess and its     *)
(* deferred timer callback, evaluateGuess, updateKeyboard, restoreState),  *)
(* the daily selector and the localStorage record of js/daily.js.          *)
(*                                                                         *)
(* A JavaScript string is modelled as the sequence of its code points; a   *)
(* code point is written by the name of its letter ("meem" for U+0645).    *)
(* A letter as the game handles it (a key's data-letter, an element of     *)
(* splitUrdu's result) is a one-code-point string.                         *)
(***************************************************************************)
EXTENDS Integers, Sequences, FiniteSets, TLC

(***************************************************************************)
(* Program constants.                                                      *)
(***************************************************************************)
WORD_LENGTH == 4

MAX_ATTEMPTS == 5

WORDS ==
  << <<"toe", "alif", "he", "re">>,
     <<"meem", "noon", "dal", "re">>,
     <<"be", "alif", "dal", "lam">>,
     <<"meem", "alif", "jeem", "dal">>,
     <<"jeem", "alif", "he", "lam">>,
     <<"kaf", "alif", "meem", "lam">>,
     <<"ain", "alif", "dal", "lam">>,
     <<"suad", "alif", "be", "re">>,
     <<"noon", "alif", "suad", "re">>,
     <<"hah", "alif", "meem", "dal">>,
     <<"qaf", "alif", "seen", "meem">>,
     <<"wao", "alif", "hah", "dal">>,
     <<"sheen", "alif", "kaf", "re">>,
     <<"ghain", "alif", "fe", "lam">>,
     <<"fe", "alif", "zuad", "lam">>,
     <<"khe", "alif", "lam", "dal">>,
     <<"seen", "alif", "lam", "meem">>,
     <<"hah", "alif", "zuad", "re">>,
     <<"te", "alif", "jeem", "re">>,
     <<"ze", "alif", "he", "dal">> >>

(***************************************************************************)
(* Sequences and strings.                                                  *)
(***************************************************************************)
Range(s) == {s[i] : i \in DOMAIN s}

\* Array.prototype.includes
Includes(arr, x) == \E i \in DOMAIN arr : arr[i] = x

\* evaluation.every((s) => s === 'correct')
isWin(evaluation) == \A i \in DOMAIN evaluation : evaluation[i] = "correct"

\* splitUrdu: Array.from(word), one one-code-point string per code point.
splitUrdu(word) == [i \in 1..Len(word) |-> <<word[i]>>]

\* Array.prototype.join(''): the concatenation of the strings of the array.
RECURSIVE Join(_)
Join(arr) == IF arr = <<>> THEN <<>> ELSE Head(arr) \o Join(Tail(arr))

\* A null among the elements of an array: no string.
JSNull == <<"(null)">>

\* An array read past its end gives undefined, which equals no letter.
Undefined == <<>>

At(arr, i) == IF i \in DOMAIN arr THEN arr[i] ELSE Undefined

(***************************************************************************)
(* The daily selector (js/daily.js).                                       *)
(***************************************************************************)
\* The calendar date of a day count, as Intl.DateTimeFormat('en-CA') writes
\* it: year, month, day of the proleptic Gregorian calendar.
CivilFromDays(n) ==
  LET z    == n + 719468
      era  == z \div 146097
      doe  == z - era * 146097
      yoe  == (doe - doe \div 1460 + doe \div 36524 - doe \div 146096) \div 365
      doy  == doe - (365 * yoe + yoe \div 4 - yoe \div 100)
      mp   == (5 * doy + 2) \div 153
      d    == doy - (153 * mp + 2) \div 5 + 1
      m    == IF mp < 10 THEN mp + 3 ELSE mp - 9
      y    == yoe + era * 400 + (IF m <= 2 THEN 1 ELSE 0)
  IN  [year |-> y, month |-> m, day |-> d]

\* new Date('YYYY-MM-DD').getTime() / 86400000: the date is read as UTC
\* midnight, so the quotient is the day count of the date.
DaysFromCivil(date) ==
  LET y   == date.year - (IF date.month <= 2 THEN 1 ELSE 0)
      era == y \div 400
      yoe == y - era * 400
      mp  == IF date.month > 2 THEN date.month - 3 ELSE date.month + 9
      doy == (153 * mp + 2) \div 5 + date.day - 1
      doe == yoe * 365 + yoe \div 4 - yoe \div 100 + doy
  IN  era * 146097 + doe - 719468

\* getUSToday at an instant of day `now` (US Eastern).
getUSToday(now) == CivilFromDays(now)

\* A slip in the selector: indexed by the day of the month.
getDailyWordByDayOfMonth(now) ==
  LET today    == getUSToday(now)
      dayIndex == today.day
  IN  WORDS[(dayIndex % Len(WORDS)) + 1]

\* getDailyWord at an instant of day `now`.
getDailyWord(now) ==
  LET today    == getUSToday(now)
      dayIndex == DaysFromCivil(today)
  IN  WORDS[(dayIndex % Len(WORDS)) + 1]

(***************************************************************************)
(* Bounds of the model.                                                    *)
(***************************************************************************)
\* The first day of the model, as a count of days since 1970-01-01:
\* 2024-04-30, whose word is WORDS[3] (index 19843 % 20); the next day is
\* 2024-05-01, in another month, whose word is WORDS[4].
FirstDay == DaysFromCivil([year |-> 2024, month |-> 4, day |-> 30])

\* How many times midnight (US Eastern) passes.
MaxDays == 1

\* How many accepted submissions may wait for their reveal timer at once
\* (how often Enter is pressed within one animation time).
MaxPending == 2

\* The words the player types, letter by letter: the words of the two days,
\* and a four-letter string that is not in WORDS.
TypedWords ==
  { <<"meem", "alif", "jeem", "dal">>,
    <<"jeem", "alif", "he", "lam">>,
    <<"meem", "alif", "jeem", "lam">> }

(***************************************************************************)
(* The persisted record (js/daily.js).  localStorage holds either no item  *)
(* (<<>>) or one item, a text.  A text is described by what JSON.parse     *)
(* makes of it: "invalid" (no JSON: the parse throws), "null", or "object" *)
(* with its members.  A member of an object is <<>> when the object lacks  *)
(* it (reading it gives undefined) and <<v>> when it has the value v.      *)
(***************************************************************************)
\* JSON.stringify of {date, attempts, gameOver, won}: the text keeps the
\* four members, strings as strings, booleans as booleans.
JSONstringify(data) ==
  [json |-> "object", date |-> <<data.date>>, attempts |-> <<data.attempts>>,
   gameOver |-> <<data.gameOver>>, won |-> <<data.won>>]

\* JSON.parse throws a SyntaxError on a text that is no JSON.
JSONparseThrows(raw) == raw.json = "invalid"

\* JSON.parse of the text of an object: the object with the members it has.
JSONparse(raw) ==
  [date |-> raw.date, attempts |-> raw.attempts,
   gameOver |-> raw.gameOver, won |-> raw.won]

\* saved.attempts || []: an array, even an empty one, is truthy.
OrEmptyArray(member) == IF member = <<>> THEN <<>> ELSE member[1]

\* saved.gameOver || false, saved.won || false
OrFalse(member) == IF member = <<>> THEN FALSE ELSE member[1]

\* localStorage.setItem on the slot: the text replaces what the slot held.
setItem(slot, text) == <<text>>

\* saveDailyState, called on day `now`: the storage slot after the call.
saveDailyState(slot, attempts, gameOver, won, now) ==
  setItem(slot, JSONstringify([date |-> getUSToday(now), attempts |-> attempts,
                               gameOver |-> gameOver, won |-> won]))

\* markPlayed
markPlayed(slot, attempts, won, now) == saveDailyState(slot, attempts, TRUE, won, now)

\* loadDailyState: <<>> for null, <<data>> for a record of today.  The catch
\* turns the SyntaxError of JSON.parse and the TypeError of reading the date
\* of null into null.
loadDailyState(storage, now) ==
  IF storage = <<>> THEN <<>>
  ELSE IF JSONparseThrows(storage[1]) THEN <<>>
  ELSE IF storage[1].json = "null" THEN <<>>
  ELSE LET data == JSONparse(storage[1])
       IN  IF data.date # <<getUSToday(now)>> THEN <<>> ELSE <<data>>

(***************************************************************************)
(* Tile evaluation: evaluateGuess.                                         *)
(***************************************************************************)
\* The frequency map of the secret's letters.
BuildFreq(secretLetters) ==
  [l \in Range(secretLetters) |->
     Cardinality({i \in DOMAIN secretLetters : secretLetters[i] = l})]

\* freq[letter] read as a condition: a missing entry is falsy, as 0 is.
FreqOf(freq, l) == IF l \in DOMAIN freq THEN freq[l] ELSE 0

\* freq[letter]--
FreqDec(freq, l) == IF l \in DOMAIN freq THEN [freq EXCEPT ![l] = @ - 1] ELSE freq

\* A slip in the first pass: the loop stops one position early.
RECURSIVE FirstPassStopsEarly(_, _, _, _)
FirstPassStopsEarly(i, st, guessLetters, secretLetters) ==
  IF i > WORD_LENGTH - 1 THEN st
  ELSE FirstPassStopsEarly(i + 1,
         IF At(guessLetters, i) = At(secretLetters, i)
         THEN [result |-> [st.result EXCEPT ![i] = "correct"],
               freq   |-> FreqDec(st.freq, At(guessLetters, i))]
         ELSE st,
         guessLetters, secretLetters)

\* First pass: mark correct, position by position, left to right.
RECURSIVE FirstPass(_, _, _, _)
FirstPass(i, st, guessLetters, secretLetters) ==
  IF i > WORD_LENGTH THEN st
  ELSE FirstPass(i + 1,
         IF At(guessLetters, i) = At(secretLetters, i)
         THEN [result |-> [st.result EXCEPT ![i] = "correct"],
               freq   |-> FreqDec(st.freq, At(guessLetters, i))]
         ELSE st,
         guessLetters, secretLetters)

\* A slip in the second pass: a letter marked present is not counted off.
RECURSIVE SecondPassNoDecrement(_, _, _)
SecondPassNoDecrement(i, st, guessLetters) ==
  IF i > WORD_LENGTH THEN st
  ELSE SecondPassNoDecrement(i + 1,
         IF st.result[i] = "correct" THEN st
         ELSE IF FreqOf(st.freq, At(guessLetters, i)) > 0
              THEN [result |-> [st.result EXCEPT ![i] = "present"],
                    freq   |-> st.freq]
              ELSE st,
         guessLetters)

\* Second pass: mark present while the letter has occurrences left.
RECURSIVE SecondPass(_, _, _)
SecondPass(i, st, guessLetters) ==
  IF i > WORD_LENGTH THEN st
  ELSE SecondPass(i + 1,
         IF st.result[i] = "correct" THEN st
         ELSE IF FreqOf(st.freq, At(guessLetters, i)) > 0
              THEN [result |-> [st.result EXCEPT ![i] = "present"],
                    freq   |-> FreqDec(st.freq, At(guessLetters, i))]
              ELSE st,
         guessLetters)

\* new Array(n).fill(value).
RECURSIVE NewArrayFill(_, _)
NewArrayFill(n, value) ==
  IF n = 0 THEN <<>> ELSE Append(NewArrayFill(n - 1, value), value)

\* evaluateGuess throws only where splitUrdu does: Array.from of null is a
\* TypeError.  Of a string of any length it returns an evaluation.
evaluateGuessThrows(guess) == guess = JSNull

\* evaluateGuess(guess), with the session's secretLetters made explicit.
evaluateGuess(guess, secretLetters) ==
  LET guessLetters == splitUrdu(guess)
      start == [result |-> NewArrayFill(WORD_LENGTH, "absent"),
                freq   |-> BuildFreq(secretLetters)]
  IN  SecondPass(1, FirstPass(1, start, guessLetters, secretLetters),
                 guessLetters).result

(***************************************************************************)
(* The two loops of evaluateGuess with the positions visited in a given    *)
(* order, the first loop run to its end before the second starts.  An      *)
(* order is a permutation of the positions; LeftToRight is the order of    *)
(* the for loops.                                                          *)
(***************************************************************************)
Orders ==
  {order \in [1..WORD_LENGTH -> 1..WORD_LENGTH] :
     \A i, j \in 1..WORD_LENGTH : order[i] = order[j] => i = j}

LeftToRight == [i \in 1..WORD_LENGTH |-> i]

\* A slip in the first loop: a letter marked correct is not counted off.
RECURSIVE FirstPassInNoDecrement(_, _, _, _, _)
FirstPassInNoDecrement(order, k, st, guessLetters, secretLetters) ==
  IF k > WORD_LENGTH THEN st
  ELSE FirstPassInNoDecrement(order, k + 1,
         IF At(guessLetters, order[k]) = At(secretLetters, order[k])
         THEN [result |-> [st.result EXCEPT ![order[k]] = "correct"],
               freq   |-> st.freq]
         ELSE st,
         guessLetters, secretLetters)

RECURSIVE FirstPassIn(_, _, _, _, _)
FirstPassIn(order, k, st, guessLetters, secretLetters) ==
  IF k > WORD_LENGTH THEN st
  ELSE FirstPassIn(order, k + 1,
         IF At(guessLetters, order[k]) = At(secretLetters, order[k])
         THEN [result |-> [st.result EXCEPT ![order[k]] = "correct"],
               freq   |-> FreqDec(st.freq, At(guessLetters, order[k]))]
         ELSE st,
         guessLetters, secretLetters)

RECURSIVE SecondPassIn(_, _, _, _)
SecondPassIn(order, k, st, guessLetters) ==
  IF k > WORD_LENGTH THEN st
  ELSE SecondPassIn(order, k + 1,
         IF st.result[order[k]] = "correct" THEN st
         ELSE IF FreqOf(st.freq, At(guessLetters, order[k])) > 0
              THEN [result |-> [st.result EXCEPT ![order[k]] = "present"],
                    freq   |-> FreqDec(st.freq, At(guessLetters, order[k]))]
              ELSE st,
         guessLetters)

\* The state evaluateGuess starts its loops from.
EvaluationStart(secretLetters) ==
  [result |-> NewArrayFill(WORD_LENGTH, "absent"),
   freq   |-> BuildFreq(secretLetters)]

(***************************************************************************)
(* Keyboard hints: updateKeyboard.  keyStates maps a letter to its status; *)
(* a letter outside its domain has no entry.                               *)
(***************************************************************************)
NoKeyStates == [l \in {} |-> "absent"]

\* A slip in the ranking: present ranked above correct.
priorityPresentFirst(status) ==
  CASE status = "correct" -> 2
    [] status = "present" -> 3
    [] status = "absent"  -> 1
    [] OTHER              -> 0

priority(status) ==
  CASE status = "correct" -> 3
    [] status = "present" -> 2
    [] status = "absent"  -> 1
    [] OTHER              -> 0

SetKey(ks, letter, status) ==
  IF letter \in DOMAIN ks THEN [ks EXCEPT ![letter] = status]
  ELSE ks @@ (letter :> status)

RECURSIVE UpdateKeys(_, _, _, _)
UpdateKeys(i, ks, letters, evaluation) ==
  IF i > Len(letters) THEN ks
  ELSE LET letter == letters[i]
           status == At(evaluation, i)
           currentPriority == IF letter \in DOMAIN ks THEN priority(ks[letter]) ELSE 0
       IN  UpdateKeys(i + 1,
             IF priority(status) > currentPriority THEN SetKey(ks, letter, status) ELSE ks,
             letters, evaluation)

updateKeyboard(ks, guess, evaluation) == UpdateKeys(1, ks, splitUrdu(guess), evaluation)

(***************************************************************************)
(* State restoration: restoreState.                                        *)
(***************************************************************************)
\* The loop of restoreState: re-evaluate every restored guess in order.
\* evaluateGuess of an element that is null throws a TypeError (Array.from
\* of null in splitUrdu), which ends the loop and restoreState.
RECURSIVE Replay(_, _, _, _)
Replay(i, st, attempts, secretLetters) ==
  IF i > Len(attempts) THEN st
  ELSE IF evaluateGuessThrows(attempts[i]) THEN [st EXCEPT !.threw = TRUE]
  ELSE LET evaluation == evaluateGuess(attempts[i], secretLetters)
       IN  Replay(i + 1,
             [evaluations |-> Append(st.evaluations, evaluation),
              keyStates   |-> updateKeyboard(st.keyStates, attempts[i], evaluation),
              threw       |-> FALSE],
             attempts, secretLetters)

\* A slip in restoreState: won is read from the record's gameOver member.
restoreStateWonFromGameOver(saved, secretLetters) ==
  LET Restored(replayed) ==
        [attempts     |-> OrEmptyArray(saved.attempts),
         gameOver     |-> OrFalse(saved.gameOver),
         won          |-> OrFalse(saved.gameOver),
         currentRow   |-> Len(OrEmptyArray(saved.attempts)),
         evaluations  |-> replayed.evaluations,
         keyStates    |-> replayed.keyStates,
         currentGuess |-> <<>>,
         threw        |-> replayed.threw]
  IN  Restored(Replay(1, [evaluations |-> <<>>, keyStates |-> NoKeyStates,
                          threw |-> FALSE],
                      OrEmptyArray(saved.attempts), secretLetters))

\* A slip in restoreState: currentRow is left at its initial value.
restoreStateRowNotSet(saved, secretLetters) ==
  LET Restored(replayed) ==
        [attempts     |-> OrEmptyArray(saved.attempts),
         gameOver     |-> OrFalse(saved.gameOver),
         won          |-> OrFalse(saved.won),
         currentRow   |-> 0,
         evaluations  |-> replayed.evaluations,
         keyStates    |-> replayed.keyStates,
         currentGuess |-> <<>>,
         threw        |-> replayed.threw]
  IN  Restored(Replay(1, [evaluations |-> <<>>, keyStates |-> NoKeyStates,
                          threw |-> FALSE],
                      OrEmptyArray(saved.attempts), secretLetters))

\* restoreState(saved) on a freshly loaded page: the game state it leaves,
\* and whether it threw.
restoreState(saved, secretLetters) ==
  LET Restored(replayed) ==
        [attempts     |-> OrEmptyArray(saved.attempts),
         gameOver     |-> OrFalse(saved.gameOver),
         won          |-> OrFalse(saved.won),
         currentRow   |-> Len(OrEmptyArray(saved.attempts)),
         evaluations  |-> replayed.evaluations,
         keyStates    |-> replayed.keyStates,
         currentGuess |-> <<>>,
         threw        |-> replayed.threw]
  IN  Restored(Replay(1, [evaluations |-> <<>>, keyStates |-> NoKeyStates,
                          threw |-> FALSE],
                      OrEmptyArray(saved.attempts), secretLetters))

\* The game state of a page that restored nothing.
FreshState ==
  [attempts     |-> <<>>,
   gameOver     |-> FALSE,
   won          |-> FALSE,
   currentRow   |-> 0,
   evaluations  |-> <<>>,
   keyStates    |-> NoKeyStates,
   currentGuess |-> <<>>,
   threw        |-> FALSE]

\* A slip in the load path: the record in the slot is restored whatever its
\* date is.
LoadedStateAnyDate(storage, now) ==
  IF storage # <<>> /\ ~JSONparseThrows(storage[1]) /\ storage[1].json = "object"
  THEN restoreState(JSONparse(storage[1]), splitUrdu(getDailyWord(now)))
  ELSE FreshState

\* The DOMContentLoaded handler up to the binding of the listeners: restore
\* a record of today, if any.
LoadedState(storage, now) ==
  LET saved == loadDailyState(storage, now)
  IN  IF saved # <<>> /\ saved[1].date = <<getUSToday(now)>>
      THEN restoreState(saved[1], splitUrdu(getDailyWord(now)))
      ELSE FreshState

(***************************************************************************)
(* The state.                                                              *)
(***************************************************************************)
VARIABLES
  now,           \* the current day (US Eastern), in days since 1970-01-01
  storage,       \* localStorage's urdle_daily slot
  secretWord,    \* today's word, picked when the page loaded
  currentGuess,  \* the letters typed so far
  attempts,      \* the guesses recorded
  evaluations,   \* their evaluations
  currentRow,
  gameOver,
  won,
  keyStates,
  timers,        \* the result callbacks scheduled by submitGuess, in order
  toast,         \* the last message showToast displayed on this page
  listening,     \* the load handler reached the binding of the key listeners
  loadedOn       \* the day the page was loaded on (the day of secretWord)

vars == <<now, storage, secretWord, currentGuess, attempts, evaluations,
          currentRow, gameOver, won, keyStates, timers, toast, listening,
          loadedOn>>

page == <<secretWord, listening, loadedOn>>

game == <<attempts, evaluations, currentRow, gameOver, won, keyStates>>

secretLetters == splitUrdu(secretWord)

Init ==
  /\ now = FirstDay
  /\ storage = <<>>
  /\ secretWord = getDailyWord(FirstDay)
  /\ currentGuess = FreshState.currentGuess
  /\ attempts = FreshState.attempts
  /\ evaluations = FreshState.evaluations
  /\ currentRow = FreshState.currentRow
  /\ gameOver = FreshState.gameOver
  /\ won = FreshState.won
  /\ keyStates = FreshState.keyStates
  /\ timers = <<>>
  /\ toast = "none"
  /\ listening = ~FreshState.threw
  /\ loadedOn = FirstDay

(***************************************************************************)
(* Input handling: handleKey and handlePhysicalKey.  Both return at once   *)
(* when the game is over, and both route Enter to submitGuess, Backspace   *)
(* to the pop and a letter of the on-screen keyboard to the push.          *)
(***************************************************************************)
\* The letters the player presses, and the strings typing may pass through.
Keys == UNION {Range(splitUrdu(w)) : w \in TypedWords}

TypedPrefixes == {SubSeq(w, 1, n) : w \in TypedWords, n \in 0..WORD_LENGTH}

\* handleKey(letter), a regular letter.
HandleLetter(letter) ==
  /\ listening
  /\ ~gameOver
  /\ Len(currentGuess) < WORD_LENGTH
  /\ Join(Append(currentGuess, letter)) \in TypedPrefixes
  /\ currentGuess' = Append(currentGuess, letter)
  /\ UNCHANGED <<now, storage, page, game, timers, toast>>

\* handleKey('backspace')
HandleBackspace ==
  /\ listening
  /\ ~gameOver
  /\ Len(currentGuess) > 0
  /\ currentGuess' = SubSeq(currentGuess, 1, Len(currentGuess) - 1)
  /\ UNCHANGED <<now, storage, page, game, timers, toast>>

(***************************************************************************)
(* Guess submission: submitGuess.                                          *)
(***************************************************************************)
\* A slip in submitGuess: the word-list validation is left out.
ValidateLengthOnly(guess) ==
  IF Len(guess) # WORD_LENGTH THEN "fourLetters" ELSE "ok"

\* The two validations of submitGuess: the toast of a rejection, or "ok".
Validate(guess) ==
  IF Len(guess) # WORD_LENGTH THEN "fourLetters"
  ELSE IF ~Includes(WORDS, Join(guess)) THEN "notInList"
  ELSE "ok"

\* handleKey('enter'): submitGuess up to the scheduling of the result.
HandleEnter ==
  /\ listening
  /\ ~gameOver
  /\ LET verdict == Validate(currentGuess)
         guessWord == Join(currentGuess)
     IN  IF verdict # "ok"
         THEN /\ toast' = verdict
              /\ UNCHANGED timers
         ELSE /\ Len(timers) < MaxPending
              /\ timers' = Append(timers,
                   [guessWord  |-> guessWord,
                    evaluation |-> evaluateGuess(guessWord, secretLetters)])
              /\ UNCHANGED toast
  /\ UNCHANGED <<now, storage, page, currentGuess, game>>

\* A slip in the callback: the attempt limit is checked before the win.
DecideLossFirst(evaluation, row) ==
  IF row >= MAX_ATTEMPTS THEN "loss"
  ELSE IF isWin(evaluation) THEN "win"
  ELSE "continue"

\* A slip in the callback: the attempt limit is off by one.
DecideLimitOffByOne(evaluation, row) ==
  IF isWin(evaluation) THEN "win"
  ELSE IF row > MAX_ATTEMPTS THEN "loss"
  ELSE "continue"

\* The decision of the result callback after the attempt is recorded.
Decide(evaluation, row) ==
  IF isWin(evaluation) THEN "win"
  ELSE IF row >= MAX_ATTEMPTS THEN "loss"
  ELSE "continue"

\* The callback submitGuess scheduled, run animationTime later.  Timers of
\* one delay run in the order they were set.
TimerCallback ==
  /\ timers # <<>>
  /\ LET guessWord  == Head(timers).guessWord
         evaluation == Head(timers).evaluation
         decision   == Decide(evaluation, currentRow + 1)
     IN  /\ timers' = Tail(timers)
         /\ currentRow' = currentRow + 1
         /\ attempts' = Append(attempts, guessWord)
         /\ evaluations' = Append(evaluations, evaluation)
         /\ keyStates' = updateKeyboard(keyStates, guessWord, evaluation)
         /\ CASE decision = "win" ->
                   /\ gameOver' = TRUE
                   /\ won' = TRUE
                   /\ toast' = "win"
                   /\ storage' = saveDailyState(markPlayed(storage, attempts', TRUE, now),
                                                attempts', TRUE, TRUE, now)
                   /\ UNCHANGED currentGuess
              [] decision = "loss" ->
                   /\ gameOver' = TRUE
                   /\ won' = FALSE
                   /\ toast' = "loss"
                   /\ storage' = saveDailyState(markPlayed(storage, attempts', FALSE, now),
                                                attempts', TRUE, FALSE, now)
                   /\ UNCHANGED currentGuess
              [] OTHER ->
                   /\ currentGuess' = <<>>
                   /\ storage' = saveDailyState(storage, attempts', FALSE, FALSE, now)
                   /\ UNCHANGED <<gameOver, won, toast>>
  /\ UNCHANGED <<now, page>>

(***************************************************************************)
(* The page is loaded again: every variable of the script starts over, the *)
(* pending timers are gone, and the DOMContentLoaded handler runs.         *)
(***************************************************************************)
PageLoad ==
  \E loaded \in {LoadedState(storage, now)} :
      /\ secretWord' = getDailyWord(now)
      /\ currentGuess' = loaded.currentGuess
      /\ attempts' = loaded.attempts
      /\ evaluations' = loaded.evaluations
      /\ currentRow' = loaded.currentRow
      /\ gameOver' = loaded.gameOver
      /\ won' = loaded.won
      /\ keyStates' = loaded.keyStates
      /\ timers' = <<>>
      /\ toast' = "none"
      /\ listening' = ~loaded.threw
      /\ loadedOn' = now
      /\ UNCHANGED <<now, storage>>

\* Midnight passes in US Eastern time.
DayPasses ==
  /\ now < FirstDay + MaxDays
  /\ now' = now + 1
  /\ UNCHANGED <<storage, page, currentGuess, game, timers, toast>>

Next ==
  \/ \E letter \in Keys : HandleLetter(letter)
  \/ HandleBackspace
  \/ HandleEnter
  \/ TimerCallback
  \/ PageLoad
  \/ DayPasses

Spec == Init /\ [][Next]_vars

(***************************************************************************)
(* The evaluation on its own: the loop of restoreState over a restored     *)
(* list of one element, for every secret and every element of a small      *)
(* alphabet, the element being of WORD_LENGTH letters, one fewer, one more *)
(* or null.                                                                *)
(***************************************************************************)
EvalAlphabet == {"alif", "be", "jeem"}

StringsOfLength(n) == [1..n -> EvalAlphabet]

EvalSecrets == StringsOfLength(WORD_LENGTH)

EvalGuesses ==
  StringsOfLength(WORD_LENGTH - 1) \cup StringsOfLength(WORD_LENGTH)
    \cup StringsOfLength(WORD_LENGTH + 1) \cup {JSNull}

InitEval ==
  /\ now = FirstDay
  /\ storage = <<>>
  /\ secretWord \in EvalSecrets
  /\ currentGuess = <<>>
  /\ attempts \in {<<guess>> : guess \in EvalGuesses}
  /\ evaluations = <<>>
  /\ currentRow = 1
  /\ gameOver = FALSE
  /\ won = FALSE
  /\ keyStates = NoKeyStates
  /\ timers = <<>>
  /\ toast = "none"
  /\ listening = TRUE
  /\ loadedOn = FirstDay

\* One turn of the loop of restoreState.
ReplayStep ==
  /\ listening
  /\ Len(evaluations) < Len(attempts)
  /\ LET guess == attempts[Len(evaluations) + 1]
     IN  IF evaluateGuessThrows(guess)
         THEN /\ listening' = FALSE
              /\ UNCHANGED <<evaluations, keyStates>>
         ELSE \E evaluation \in {evaluateGuess(guess, secretLetters)} :
                /\ evaluations' = Append(evaluations, evaluation)
                /\ keyStates' = updateKeyboard(keyStates, guess, evaluation)
                /\ UNCHANGED listening
  /\ UNCHANGED <<now, storage, secretWord, loadedOn, currentGuess, attempts,
                 currentRow, gameOver, won, timers, toast>>

NextEval == ReplayStep

SpecEval == InitEval /\ [][NextEval]_vars

(***************************************************************************)
(* The daily selector on its own: the page is loaded, without playing, on  *)
(* days that run past one turn of the catalog and across month ends.       *)
(***************************************************************************)
DailyDays == 45

NextDay ==
  /\ now < FirstDay + DailyDays
  /\ now' = now + 1
  /\ UNCHANGED <<storage, page, currentGuess, game, timers, toast>>

NextDaily ==
  \/ PageLoad
  \/ NextDay

SpecDaily == Init /\ [][NextDaily]_vars

(***************************************************************************)
(* Sessions that start on a slot somebody else wrote: no item, text that   *)
(* is not JSON, the JSON null, and objects that lack members of the record *)
(* or hold a null where a guess should be.                                 *)
(***************************************************************************)
Text(json, date, atts, over, w) ==
  [json |-> json, date |-> date, attempts |-> atts, gameOver |-> over,
   won |-> w]

ForeignTexts ==
  { Text("invalid", <<>>, <<>>, <<>>, <<>>),
    Text("null", <<>>, <<>>, <<>>, <<>>),
    Text("object", <<>>, <<>>, <<>>, <<>>),
    Text("object", <<getUSToday(FirstDay)>>, <<>>, <<>>, <<>>),
    Text("object", <<getUSToday(FirstDay)>>, <<>>, <<TRUE>>, <<>>),
    Text("object", <<getUSToday(FirstDay)>>, << <<JSNull>> >>, <<FALSE>>,
         <<FALSE>>) }

ForeignSlots == {<<>>} \cup {<<text>> : text \in ForeignTexts}

InitCorrupt ==
  /\ now = FirstDay
  /\ storage \in ForeignSlots
  /\ \E loaded \in {LoadedState(storage, FirstDay)} :
       /\ secretWord = getDailyWord(FirstDay)
       /\ currentGuess = loaded.currentGuess
       /\ attempts = loaded.attempts
       /\ evaluations = loaded.evaluations
       /\ currentRow = loaded.currentRow
       /\ gameOver = loaded.gameOver
       /\ won = loaded.won
       /\ keyStates = loaded.keyStates
       /\ listening = ~loaded.threw
  /\ timers = <<>>
  /\ toast = "none"
  /\ loadedOn = FirstDay

NextCorrupt ==
  \/ \E letter \in Keys : HandleLetter(letter)
  \/ HandleBackspace
  \/ HandleEnter
  \/ TimerCallback
  \/ PageLoad

SpecCorrupt == InitCorrupt /\ [][NextCorrupt]_vars

(***************************************************************************)
(* Sharing: shareResult.  It changes nothing of the game; what it hands to *)
(* the clipboard is a function of the state, a string written here as the  *)
(* sequence of its pieces: the title, digits, "-", "/", "X", " ", "\n" and  *)
(* the three squares.                                                      *)
(***************************************************************************)
DecimalDigits == <<"0", "1", "2", "3", "4", "5", "6", "7", "8", "9">>

\* String(n) of a natural number, as + writes it into a string.
RECURSIVE NumberToString(_)
NumberToString(n) ==
  IF n < Len(DecimalDigits) THEN <<DecimalDigits[n + 1]>>
  ELSE NumberToString(n \div Len(DecimalDigits))
         \o <<DecimalDigits[(n % Len(DecimalDigits)) + 1]>>

\* A field of the date with '2-digit'.
TwoDigit(n) ==
  IF n < Len(DecimalDigits) THEN <<"0">> \o NumberToString(n)
  ELSE NumberToString(n)

\* The YYYY-MM-DD string getUSToday returns.
DateString(date) ==
  NumberToString(date.year) \o <<"-">> \o TwoDigit(date.month)
    \o <<"-">> \o TwoDigit(date.day)

\* The row of squares of one evaluation.
RECURSIVE ShareRow(_)
ShareRow(evaluation) ==
  IF evaluation = <<>> THEN <<>>
  ELSE (IF Head(evaluation) = "correct" THEN <<"green">>
        ELSE IF Head(evaluation) = "present" THEN <<"yellow">>
        ELSE <<"white">>) \o ShareRow(Tail(evaluation))

RECURSIVE ShareRows(_)
ShareRows(evals) ==
  IF evals = <<>> THEN <<>>
  ELSE ShareRow(Head(evals)) \o <<"\n">> \o ShareRows(Tail(evals))

IsWhiteSpace(piece) == piece \in {" ", "\n"}

\* String.prototype.trim.
RECURSIVE TrimStart(_)
TrimStart(text) ==
  IF text # <<>> /\ IsWhiteSpace(Head(text)) THEN TrimStart(Tail(text))
  ELSE text

RECURSIVE TrimEnd(_)
TrimEnd(text) ==
  IF text # <<>> /\ IsWhiteSpace(text[Len(text)])
  THEN TrimEnd(SubSeq(text, 1, Len(text) - 1))
  ELSE text

Trim(text) == TrimEnd(TrimStart(text))

\* shareResult: nothing to write when there is no attempt (a toast asks to
\* play first), else the text written to the clipboard.
shareResult(atts, evals, w, row, today) ==
  IF Len(atts) = 0 THEN <<>>
  ELSE << Trim(<<"title", " ">> \o DateString(today) \o <<"\n">>
               \o (IF w THEN NumberToString(row) ELSE <<"X">>)
               \o <<"/">> \o NumberToString(MAX_ATTEMPTS) \o <<"\n", "\n">>
               \o ShareRows(evals)) >>

(***************************************************************************)
(* Properties.                                                             *)
(***************************************************************************)
Last(s) == s[Len(s)]

\* The evaluation of the most recent attempt is all-correct.
LastAllCorrect == evaluations # <<>> /\ isWin(Last(evaluations))

\* C1: in every reachable state the number of recorded attempts is at most
\* MAX_ATTEMPTS.
C1_AttemptsWithinMax == Len(attempts) <= MAX_ATTEMPTS

\* C2: at most one accepted submission waits for its deferred result at any
\* time: no Enter is accepted while a result callback is pending.
C2_OneSubmissionPending == Len(timers) <= 1

\* C3: once the game is over, no later event of the session (a key, Enter, a
\* timer callback) changes attempts, gameOver, won or the persisted record.
\* A page load starts another session.
C3_NoMutationOnceOver ==
  [][(gameOver /\ ~PageLoad) => UNCHANGED <<attempts, gameOver, won, storage>>]_vars

\* C4: in every reachable state gameOver holds iff the most recent attempt's
\* evaluation is all-correct or the number of attempts equals MAX_ATTEMPTS.
C4_GameOverIff == gameOver <=> (LastAllCorrect \/ Len(attempts) = MAX_ATTEMPTS)

\* C5: in every reachable state won holds iff gameOver holds and the
\* evaluation of the last recorded attempt is all-correct.
C5_WonIff == won <=> (gameOver /\ LastAllCorrect)

\* C6: when the result of an accepted guess that equals the secret word is
\* applied as attempt number 1 to MAX_ATTEMPTS, the game is Won afterwards
\* (gameOver and won), also on the last allowed attempt.
C6_CorrectGuessWins ==
  [][(/\ TimerCallback
      /\ Head(timers).guessWord = secretWord
      /\ currentRow + 1 \in 1..MAX_ATTEMPTS)
     => (gameOver' /\ won')]_vars

\* C6 witness: the game was won in this session on attempt MAX_ATTEMPTS.
C6_WonOnLastAttempt ==
  /\ gameOver /\ won /\ toast = "win"
  /\ Len(attempts) = MAX_ATTEMPTS
  /\ Last(attempts) = secretWord
  /\ \A i \in 1..(MAX_ATTEMPTS - 1) : attempts[i] # secretWord

\* No recorded attempt equals the secret word.
AllIncorrect(atts) == \A i \in DOMAIN atts : atts[i] # secretWord

\* C7: while only incorrect guesses have been recorded, applying the result
\* of one more incorrect guess to a game in progress ends the game as Lost
\* exactly when it is attempt number MAX_ATTEMPTS; before that the game
\* stays in progress with an empty current guess.
C7_LostOnLastAttempt ==
  [][(TimerCallback /\ ~gameOver /\ AllIncorrect(attempts'))
     => /\ gameOver' <=> (Len(attempts') = MAX_ATTEMPTS)
        /\ ~won'
        /\ Len(attempts') < MAX_ATTEMPTS => (~gameOver' /\ currentGuess' = <<>>)]_vars

\* C7 witness: the game was lost in this session by the MAX_ATTEMPTS-th
\* incorrect guess of a game that started fresh on this day.
C7_LostAfterMaxIncorrect ==
  /\ gameOver /\ ~won /\ toast = "loss"
  /\ Len(attempts) = MAX_ATTEMPTS
  /\ AllIncorrect(attempts)
  /\ now = FirstDay

\* Enter is pressed on a current guess that submitGuess must reject: fewer
\* than WORD_LENGTH letters, or WORD_LENGTH letters that are no word of WORDS.
RejectedEnter ==
  /\ HandleEnter
  /\ \/ Len(currentGuess) < WORD_LENGTH
     \/ Len(currentGuess) = WORD_LENGTH /\ Join(currentGuess) \notin Range(WORDS)

\* C8: a rejected submission changes no game state, schedules no result
\* callback and leaves the typed letters in place.
C8_RejectionChangesNothing ==
  [][RejectedEnter
     => UNCHANGED <<attempts, evaluations, currentRow, gameOver, won, keyStates,
                    storage, timers, currentGuess>>]_vars

\* C8 witness: after an attempt was recorded, four letters that are no word
\* were rejected and are still the current guess.
C8_RejectedNonWordStays ==
  /\ toast = "notInList"
  /\ Len(currentGuess) = WORD_LENGTH
  /\ Join(currentGuess) \notin Range(WORDS)
  /\ attempts # <<>>
  /\ timers = <<>>

\* C9: immediately after the result of an accepted submission is applied,
\* the persisted attempts, gameOver and won equal the ones in memory.
C9_PersistedAfterEveryMutation ==
  [][TimerCallback
     => /\ storage' # <<>>
        /\ JSONparse(storage'[1]).attempts = <<attempts'>>
        /\ JSONparse(storage'[1]).gameOver = <<gameOver'>>
        /\ JSONparse(storage'[1]).won = <<won'>>]_vars

\* C10: for every reachable state whose secret word is today's, saving the
\* state and loading the page on the same day restores the same attempts,
\* evaluations, gameOver, won and keyboard hint states.
C10_RestorationIdempotent ==
  getDailyWord(now) = secretWord
  => \A restored \in {LoadedState(saveDailyState(storage, attempts, gameOver, won, now), now)} :
         /\ restored.attempts = attempts
         /\ restored.evaluations = evaluations
         /\ restored.gameOver = gameOver
         /\ restored.won = won
         /\ restored.keyStates = keyStates

\* C10 witness: a lost game that a page load of the same day restored from
\* the record the play had saved, with hints of all three statuses.
C10_RestoredFinishedGame ==
  /\ toast = "none" /\ gameOver /\ ~won
  /\ Len(attempts) = MAX_ATTEMPTS
  /\ getDailyWord(now) = secretWord
  /\ storage = saveDailyState(storage, attempts, gameOver, won, now)
  /\ {keyStates[l] : l \in DOMAIN keyStates} = {"correct", "present", "absent"}

\* The slot holds the text of an object.
HoldsRecord == storage # <<>> /\ storage[1].json = "object"

\* The slot holds a record whose date is not today's DayKey.
StaleRecord == HoldsRecord /\ storage[1].date # <<getUSToday(now)>>

\* The slot holds a record dated today.
TodayRecord == HoldsRecord /\ storage[1].date = <<getUSToday(now)>>

\* C11: a page load that finds a record whose date differs from today's
\* DayKey ignores it: the game starts with no attempts, gameOver and won
\* false and no keyboard hints, whatever the record holds.
C11_StaleDayDiscard ==
  [][(PageLoad /\ StaleRecord)
     => /\ attempts' = <<>>
        /\ evaluations' = <<>>
        /\ currentRow' = 0
        /\ ~gameOver'
        /\ ~won'
        /\ keyStates' = NoKeyStates]_vars

\* C11 witness: the page was loaded today over the record of a game that was
\* finished on an earlier day, and the game is fresh.
C11_FreshOverFinishedRecord ==
  /\ StaleRecord
  /\ storage[1].gameOver = <<TRUE>>
  /\ loadedOn = now
  /\ attempts = <<>> /\ ~gameOver /\ ~won

\* C12: every record a session writes carries the DayKey of the day whose
\* secret word its attempts were evaluated against (the day the page was
\* loaded on), also when midnight passes while the page is open.
C12_RecordDatedBySecretDay ==
  [][TimerCallback => storage'[1].date = <<getUSToday(loadedOn)>>]_vars

\* C13: a page load that restores a record dated today leaves gameOver and
\* won as the replay of the guesses against today's word gives them: gameOver
\* iff the last replayed evaluation is all-correct or the record holds
\* MAX_ATTEMPTS attempts, won iff the last replayed evaluation is all-correct.
C13_FlagsFromReplay ==
  [][(PageLoad /\ TodayRecord)
     => /\ gameOver' <=> (LastAllCorrect' \/ Len(attempts') = MAX_ATTEMPTS)
        /\ won' <=> LastAllCorrect']_vars

\* The number of positions of a string that hold a letter.
Occurrences(word, x) == Cardinality({i \in DOMAIN word : word[i] = x})

\* The number of positions of a guess that hold a letter and are marked
\* correct or present.
Marked(guess, evaluation, x) ==
  Cardinality({i \in DOMAIN guess :
                 guess[i] = x /\ evaluation[i] \in {"correct", "present"}})

Min(a, b) == IF a <= b THEN a ELSE b

\* C14: for a guess and a secret of WORD_LENGTH letters, position i of the
\* evaluation is correct iff guess[i] = secret[i]; so the secret evaluated
\* against itself is all-correct.
C14_CorrectIffSameLetter ==
  \A k \in DOMAIN evaluations :
    Len(attempts[k]) = WORD_LENGTH
    => /\ \A i \in 1..WORD_LENGTH :
            evaluations[k][i] = "correct" <=> attempts[k][i] = secretWord[i]
       /\ attempts[k] = secretWord => isWin(evaluations[k])

\* C14 witness: a secret with a repeated letter was evaluated against itself.
C14_SecretAgainstItself ==
  /\ evaluations # <<>>
  /\ attempts[1] = secretWord
  /\ isWin(evaluations[1])
  /\ Cardinality(Range(secretWord)) < WORD_LENGTH

\* C15: for a guess and a secret of WORD_LENGTH letters and every letter x,
\* the positions of the guess that hold x and are marked correct or present
\* number min(occurrences of x in the guess, occurrences of x in the secret);
\* so they never exceed the occurrences in the secret, and a letter the
\* secret lacks is absent everywhere.
C15_DuplicateLetterBound ==
  \A k \in DOMAIN evaluations :
    Len(attempts[k]) = WORD_LENGTH
    => \A x \in Range(attempts[k]) :
         /\ Marked(attempts[k], evaluations[k], x)
              = Min(Occurrences(attempts[k], x), Occurrences(secretWord, x))
         /\ Occurrences(secretWord, x) = 0
              => \A i \in 1..WORD_LENGTH :
                   attempts[k][i] = x => evaluations[k][i] = "absent"

\* C15 witness: a letter the secret holds twice and the guess three times,
\* once in place, was marked twice and left absent once.
C15_ThreeAgainstTwo ==
  /\ evaluations # <<>>
  /\ Len(attempts[1]) = WORD_LENGTH
  /\ \E x \in Range(attempts[1]) :
       /\ Occurrences(secretWord, x) = 2
       /\ Occurrences(attempts[1], x) = 3
       /\ Marked(attempts[1], evaluations[1], x) = 2
       /\ \E i, j, h \in 1..WORD_LENGTH :
            /\ attempts[1][i] = x /\ evaluations[1][i] = "correct"
            /\ attempts[1][j] = x /\ evaluations[1][j] = "present"
            /\ attempts[1][h] = x /\ evaluations[1][h] = "absent"

\* C20: evaluateGuess returns no evaluation for a guess whose letter count
\* differs from WORD_LENGTH (it fails instead): every evaluation on record
\* belongs to a guess of WORD_LENGTH letters.
C20_WrongLengthFails ==
  \A k \in DOMAIN evaluations : Len(attempts[k]) = WORD_LENGTH

\* The DayKey of the day the page was loaded on.
LoadedKey == getUSToday(loadedOn)

\* C16: the secret of a session is the catalog entry at index (epoch-day
\* count of its DayKey) mod catalog length, whatever was loaded before, and
\* every day whose epoch-day count differs from it by a multiple of the
\* catalog length has the same word.
C16_DailyWordByEpochDay ==
  /\ secretWord = WORDS[(DaysFromCivil(LoadedKey) % Len(WORDS)) + 1]
  /\ \A later \in FirstDay..(FirstDay + DailyDays) :
       (DaysFromCivil(getUSToday(later)) - DaysFromCivil(LoadedKey))
           % Len(WORDS) = 0
       => getDailyWord(later) = secretWord

\* C16 witness: the page was loaded one catalog length of days after the
\* first day, in another month, and has the first day's word again.
C16_WrapAround ==
  /\ loadedOn = FirstDay + Len(WORDS)
  /\ LoadedKey.month # getUSToday(FirstDay).month
  /\ secretWord = getDailyWord(FirstDay)
  /\ secretWord # getDailyWord(FirstDay + 1)

\* The slot is empty, or holds text that is not JSON, or the JSON null, or a
\* record of today whose attempts are missing or are not all strings.
CorruptOrMissing ==
  \/ storage = <<>>
  \/ /\ storage # <<>>
     /\ \/ storage[1].json \in {"invalid", "null"}
        \/ /\ TodayRecord
           /\ \/ storage[1].attempts = <<>>
              \/ \E i \in DOMAIN storage[1].attempts[1] :
                   storage[1].attempts[1][i] = JSNull

\* C17: while the slot is missing or corrupt the session is a fresh game that
\* takes keys: nothing recorded, not over, the key listeners bound.
C17_CorruptNeverBlocks ==
  CorruptOrMissing
  => /\ listening
     /\ ~gameOver
     /\ ~won
     /\ attempts = <<>>
     /\ evaluations = <<>>
     /\ currentRow = 0

\* The letters of the recorded attempts.
GuessedLetters == UNION {Range(splitUrdu(attempts[k])) : k \in DOMAIN attempts}

\* The statuses a letter received at the positions of the recorded attempts.
Seen(letter) ==
  {evaluations[at[1]][at[2]] :
     at \in {pos \in (DOMAIN evaluations) \X (1..WORD_LENGTH) :
               /\ pos[1] \in DOMAIN attempts
               /\ pos[2] \in DOMAIN attempts[pos[1]]
               /\ <<attempts[pos[1]][pos[2]]>> = letter}}

\* The highest of a set of statuses, correct over present over absent.
Best(statuses) ==
  IF "correct" \in statuses THEN "correct"
  ELSE IF "present" \in statuses THEN "present"
  ELSE "absent"

NotLower(after, before) ==
  after = before \/ before = "absent" \/ after = "correct"

\* C18: in every reachable state keyStates is defined exactly on the letters
\* of the recorded attempts and gives each the highest status it received at
\* any position of any recorded attempt (so restoration, which replays the
\* same attempts, gives what live play gave); and when an attempt is
\* recorded no letter's status gets lower.
C18_KeyboardBestSeen ==
  /\ [](/\ DOMAIN keyStates = GuessedLetters
        /\ \A letter \in GuessedLetters : keyStates[letter] = Best(Seen(letter)))
  /\ [][TimerCallback
        => \A letter \in DOMAIN keyStates :
             /\ letter \in DOMAIN keyStates'
             /\ NotLower(keyStates'[letter], keyStates[letter])]_vars

\* C18 witness: a letter that was present in one recorded attempt and correct
\* in another shows correct, next to a letter that is absent.
C18_UpgradedLetter ==
  /\ Len(attempts) >= 2
  /\ \E letter \in DOMAIN keyStates :
       /\ keyStates[letter] = "correct"
       /\ "present" \in Seen(letter)
  /\ \E letter \in DOMAIN keyStates : keyStates[letter] = "absent"

\* The lines of a text.
RECURSIVE Lines(_, _)
Lines(text, line) ==
  IF text = <<>> THEN <<line>>
  ELSE IF Head(text) = "\n" THEN <<line>> \o Lines(Tail(text), <<>>)
  ELSE Lines(Tail(text), Append(line, Head(text)))

\* The number of the attempt the game was won with: the first all-correct.
WinningAttempt ==
  CHOOSE k \in DOMAIN evaluations :
    /\ isWin(evaluations[k])
    /\ \A h \in 1..(k - 1) : ~isWin(evaluations[h])

Square(status) ==
  CASE status = "correct" -> "green"
    [] status = "present" -> "yellow"
    [] status = "absent"  -> "white"

SummaryOf(k) == k \o <<"/">> \o NumberToString(MAX_ATTEMPTS)

\* C19: with no attempt nothing is shared; otherwise the second line of the
\* shared text is k/MAX_ATTEMPTS, k being the number of the winning attempt
\* (1..MAX_ATTEMPTS) if the game was won and X if not, followed after an
\* empty line by one row per recorded attempt, in order, of WORD_LENGTH
\* squares, green, yellow or white as the evaluation is correct, present or
\* absent at that position.
C19_ShareSummaryAndRows ==
  \A shared \in {shareResult(attempts, evaluations, won, currentRow,
                             getUSToday(now))} :
    /\ attempts = <<>> => shared = <<>>
    /\ attempts # <<>>
       => /\ shared # <<>>
          /\ \A lines \in {Lines(shared[1], <<>>)} :
               /\ Len(lines) = 3 + Len(attempts)
               /\ won => /\ \E k \in DOMAIN evaluations : isWin(evaluations[k])
                         /\ WinningAttempt \in 1..MAX_ATTEMPTS
                         /\ lines[2] = SummaryOf(NumberToString(WinningAttempt))
               /\ ~won => lines[2] = SummaryOf(<<"X">>)
               /\ lines[3] = <<>>
               /\ \A k \in DOMAIN attempts :
                    lines[3 + k] = [i \in 1..WORD_LENGTH
                                      |-> Square(evaluations[k][i])]

\* C21 as stated: for a guess and a secret of WORD_LENGTH letters, the first
\* loop run to its end in any order of the positions and then the second
\* loop in any order give the evaluation that evaluateGuess gives.  (The
\* outcomes of the first loop over all orders are collected first.)
C21_AnyOrderSameEvaluation ==
  \A k \in DOMAIN evaluations :
    Len(attempts[k]) = WORD_LENGTH
    => \A first \in {FirstPassIn(firstOrder, 1,
                                EvaluationStart(secretLetters),
                                splitUrdu(attempts[k]), secretLetters) :
                      firstOrder \in Orders} :
         \A secondOrder \in Orders :
           SecondPassIn(secondOrder, 1, first,
                        splitUrdu(attempts[k])).result = evaluations[k]

\* C21 amended: the order of the first loop never matters; with the second
\* loop left to right the evaluation is that of evaluateGuess, and with the
\* second loop in any order the correct positions are the same and so is,
\* for every letter, the number of positions marked correct or present:
\* only which of several misplaced copies of a letter is marked can differ.
C21_OrderChangesOnlyWhichCopy ==
  \A k \in DOMAIN evaluations :
    Len(attempts[k]) = WORD_LENGTH
    => \A first \in {FirstPassIn(firstOrder, 1,
                                EvaluationStart(secretLetters),
                                splitUrdu(attempts[k]), secretLetters) :
                      firstOrder \in Orders} :
         /\ SecondPassIn(LeftToRight, 1, first,
                         splitUrdu(attempts[k])).result = evaluations[k]
         /\ \A result \in {SecondPassIn(secondOrder, 1, first,
                                         splitUrdu(attempts[k])).result :
                            secondOrder \in Orders} :
              /\ \A i \in 1..WORD_LENGTH :
                   result[i] = "correct" <=> evaluations[k][i] = "correct"
              /\ \A x \in Range(attempts[k]) :
                   Marked(attempts[k], result, x)
                     = Marked(attempts[k], evaluations[k], x)

\* C21 witness: a guess with two misplaced copies of a letter the secret
\* has once was evaluated, and the second loop run right to left marks the
\* other copy.
C21_OtherCopyMarked ==
  /\ evaluations # <<>>
  /\ Len(attempts[1]) = WORD_LENGTH
  /\ \E i, j \in 1..WORD_LENGTH :
       /\ i < j
       /\ attempts[1][i] = attempts[1][j]
       /\ evaluations[1][i] = "present"
       /\ evaluations[1][j] = "absent"
       /\ \A result \in
            {SecondPassIn([h \in 1..WORD_LENGTH |-> WORD_LENGTH + 1 - h], 1,
                          FirstPassIn(LeftToRight, 1,
                                      EvaluationStart(secretLetters),
                                      splitUrdu(attempts[1]), secretLetters),
                          splitUrdu(attempts[1])).result} :
            result[i] = "absent" /\ result[j] = "present"

IsPrefix(before, after) ==
  /\ Len(before) <= Len(after)
  /\ SubSeq(after, 1, Len(before)) = before

\* The first load of a later day than the session's: the day's game starts.
LoadOnLaterDay == PageLoad /\ loadedOn # now

\* C22: in every reachable state currentRow, the number of attempts and the
\* number of evaluations are equal and every evaluation is that of the
\* attempt of the same index against the session's secret; and every step
\* within a day (any step but the first load of a later day) keeps the
\* recorded attempts as they are, in order, adding at the end only.
C22_HistoryAligned ==
  /\ [](/\ currentRow = Len(attempts)
        /\ Len(evaluations) = Len(attempts)
        /\ \A i \in DOMAIN attempts :
             evaluations[i] = evaluateGuess(attempts[i], secretLetters))
  /\ [][~LoadOnLaterDay => IsPrefix(attempts, attempts')]_vars

\* C22 witness: a game of three attempts, won with the third, was restored
\* by a reload on the day it was played.
C22_RestoredThreeAttempts ==
  /\ gameOver /\ won
  /\ toast = "none"
  /\ storage # <<>> /\ storage[1].date = <<getUSToday(loadedOn)>>
  /\ Len(attempts) = 3
  /\ currentRow = 3
  /\ isWin(evaluations[3])
  /\ ~isWin(evaluations[1])

\* The guesses of the submissions accepted and not yet recorded, in order.
RECURSIVE PendingGuesses(_)
PendingGuesses(pending) ==
  IF pending = <<>> THEN <<>>
  ELSE <<Head(pending).guessWord>> \o PendingGuesses(Tail(pending))

\* C23: a reload on the session's day, at any moment after a submission was
\* accepted, restores a state that contains the attempt: the restored
\* attempts start with the attempts recorded and the guesses accepted so
\* far.
C23_AcceptedSurvivesReload ==
  [][(PageLoad /\ loadedOn = now)
     => IsPrefix(attempts \o PendingGuesses(timers), attempts')]_vars

====
